---- MODULE Spec2Model ----
(***************************************************************************)
(* WhatsApp API gateway: the session supervisor (initialisation retries,   *)
(* health monitor, recoverSession, /restart-client) and the delivery queue *)
(* (queueMessage, processMessageQueue, the /send-message handler).          *)
(*                                                                         *)
(* The program is single-threaded JavaScript: a handler runs without       *)
(* interruption up to its next await, so every action below is one such    *)
(* run-to-await segment.  Handlers are written as operators from a state   *)
(* record to a state record so that a handler that calls another one is    *)
(* the composition of the two; Apply installs the result.  Timers carry no *)
(* durations: a pending timer may fire at any later step.                  *)
(***************************************************************************)
EXTENDS Integers, Sequences, FiniteSets, TLC

VARIABLES
    client,                   \* the handle referenced by `client`; 0 is null
    clientInitialized,        \* the ready flag
    initializationAttempts,
    sessionHealthCheck,       \* TRUE while the health interval is running
    lastHealthCheck,          \* "null" or "set"
    sessionRestartInProgress,
    messageQueue,             \* sequence of tasks (a task is named by its request)
    processingQueue,
    cstate,                   \* library side of each handle
    ipc, iowner, itarget,     \* initializeWhatsAppClient invocations, by the handle created
    rpc, rtarget,             \* recoverSession invocations, by caller
    xpc, xtarget, xprev,      \* /restart-client
    initTimers, reconnTimers, stateTimers,
    qpc, resp,                \* /send-message requests
    outcome, timeoutArmed,    \* each task's promise and its 2-minute timer
    lpc, sendOn,              \* drain loops, by the task they last shifted
    dres,                     \* how the queue's sendMessage for a task ended
    recoverCalls,             \* recoverSession calls made by a request's catch block
    direct,                   \* requests whose handler called client.sendMessage itself
    enqOrder, dispOrder,      \* order of queueMessage calls, order of queue dispatches
    requeued,                 \* <<t, u>>: t was put back at the head while u waited behind it
    failedOn,                 \* handles on which a queue dispatch failed session-fatally
    cleared, clearedCount,    \* tasks removed by /clear-queue; count its last answer reported
    manualResp,               \* last answer of /recover-session
    shutdown,                 \* SIGINT/SIGTERM handler: "no", "destroying", "exited"
    nullDeref,                \* requests whose fallback evaluated client.sendMessage on null
    failStreak,               \* consecutive rejected client.initialize() calls
    autoCreates,              \* a non-restart path created a handle while failStreak >= max
    limClients,               \* how many handles this run may create
    limReqs                   \* how many /send-message requests this run may receive

vars == <<client, clientInitialized, initializationAttempts, sessionHealthCheck,
          lastHealthCheck, sessionRestartInProgress, messageQueue, processingQueue,
          cstate, ipc, iowner, itarget, rpc, rtarget, xpc, xtarget, xprev,
          initTimers, reconnTimers, stateTimers, qpc, resp, outcome, timeoutArmed,
          lpc, sendOn, dres, recoverCalls, direct, enqOrder, dispOrder, requeued,
          failedOn, cleared, clearedCount, manualResp, shutdown, nullDeref, failStreak, autoCreates, limClients, limReqs>>

\* ---------------------------------------------------------------- bounds
QueueClients == 2     \* handles created in a run of SpecQueue
LifeClients == 2      \* handles created in a run of SpecLife
RestartClients == 4   \* handles created in a run of SpecRestart
RetryClients == 5     \* handles created in a run of SpecRetry
FifoClients == 2      \* handles created in a run of SpecFifo
QueueReqs == 2        \* /send-message requests in a run of SpecQueue
FifoReqs == 3         \* /send-message requests in a run of SpecFifo
SettleClients == 2    \* handles created in a run of SpecSettle
SettleReqs == 2       \* /send-message requests in a run of SpecSettle
ClearClients == 2     \* handles created in a run of SpecClear
ClearReqs == 3        \* /send-message requests in a run of SpecClear
ResumeClients == 3    \* handles created in a run of SpecResume
ResumeReqs == 2       \* /send-message requests in a run of SpecResume
ExitClients == 2      \* handles created in a run of SpecExit
ExitReqs == 2         \* /send-message requests in a run of SpecExit
AuthClients == 3      \* handles created in a run of SpecAuth
AuthReqs == 2         \* /send-message requests in a run of SpecAuth
ReconnClients == 4    \* handles created in a run of SpecReconn
RecoverClients == 3   \* handles created in a run of SpecRecover
MonitorClients == 3   \* handles created in a run of SpecMonitor
TeardownClients == 3  \* handles created in a run of SpecTeardown

maxInitAttempts == 3

Max2(a, b) == IF a > b THEN a ELSE b
Clients == 1..Max2(Max2(Max2(QueueClients, LifeClients), Max2(FifoClients, SettleClients)),
                   Max2(Max2(RestartClients, RetryClients),
                        Max2(Max2(ClearClients, ResumeClients),
                             Max2(Max2(ExitClients, AuthClients),
                                  Max2(Max2(ReconnClients, TeardownClients),
                                       Max2(RecoverClients, MonitorClients))))))
Reqs == 1..Max2(Max2(QueueReqs, FifoReqs),
                Max2(Max2(SettleReqs, ClearReqs), Max2(ResumeReqs, Max2(ExitReqs, AuthReqs))))

TimerOwner == <<"timer", 0>>
RestartOwner == <<"restart", 0>>
HealthCaller == <<"health", 0>>
StateCaller == <<"state", 0>>
ManualCaller == <<"manual", 0>>
ReqCaller(r) == <<"req", r>>
Callers == {HealthCaller, StateCaller, ManualCaller} \cup {ReqCaller(r) : r \in Reqs}

\* ---------------------------------------------------------------- state record
Cur ==
    [client |-> client, clientInitialized |-> clientInitialized,
     initializationAttempts |-> initializationAttempts,
     sessionHealthCheck |-> sessionHealthCheck, lastHealthCheck |-> lastHealthCheck,
     sessionRestartInProgress |-> sessionRestartInProgress,
     messageQueue |-> messageQueue, processingQueue |-> processingQueue,
     cstate |-> cstate, ipc |-> ipc, iowner |-> iowner, itarget |-> itarget,
     rpc |-> rpc, rtarget |-> rtarget, xpc |-> xpc, xtarget |-> xtarget, xprev |-> xprev,
     initTimers |-> initTimers, reconnTimers |-> reconnTimers, stateTimers |-> stateTimers,
     qpc |-> qpc, resp |-> resp, outcome |-> outcome, timeoutArmed |-> timeoutArmed,
     lpc |-> lpc, sendOn |-> sendOn, dres |-> dres, recoverCalls |-> recoverCalls,
     direct |-> direct, enqOrder |-> enqOrder, dispOrder |-> dispOrder,
     requeued |-> requeued, failedOn |-> failedOn,
     cleared |-> cleared, clearedCount |-> clearedCount, shutdown |-> shutdown,
     nullDeref |-> nullDeref,
     manualResp |-> manualResp, failStreak |-> failStreak, autoCreates |-> autoCreates,
     limClients |-> limClients, limReqs |-> limReqs, capped |-> FALSE]

Apply(s) ==
    /\ ~s.capped
    /\ shutdown # "exited"                           \* process.exit(0) ends everything
    /\ shutdown' = s.shutdown
    /\ nullDeref' = s.nullDeref
    /\ client' = s.client
    /\ clientInitialized' = s.clientInitialized
    /\ initializationAttempts' = s.initializationAttempts
    /\ sessionHealthCheck' = s.sessionHealthCheck
    /\ lastHealthCheck' = s.lastHealthCheck
    /\ sessionRestartInProgress' = s.sessionRestartInProgress
    /\ messageQueue' = s.messageQueue
    /\ processingQueue' = s.processingQueue
    /\ cstate' = s.cstate
    /\ ipc' = s.ipc
    /\ iowner' = s.iowner
    /\ itarget' = s.itarget
    /\ rpc' = s.rpc
    /\ rtarget' = s.rtarget
    /\ xpc' = s.xpc
    /\ xtarget' = s.xtarget
    /\ xprev' = s.xprev
    /\ initTimers' = s.initTimers
    /\ reconnTimers' = s.reconnTimers
    /\ stateTimers' = s.stateTimers
    /\ qpc' = s.qpc
    /\ resp' = s.resp
    /\ outcome' = s.outcome
    /\ timeoutArmed' = s.timeoutArmed
    /\ lpc' = s.lpc
    /\ sendOn' = s.sendOn
    /\ dres' = s.dres
    /\ recoverCalls' = s.recoverCalls
    /\ direct' = s.direct
    /\ enqOrder' = s.enqOrder
    /\ dispOrder' = s.dispOrder
    /\ requeued' = s.requeued
    /\ failedOn' = s.failedOn
    /\ cleared' = s.cleared
    /\ clearedCount' = s.clearedCount
    /\ manualResp' = s.manualResp
    /\ failStreak' = s.failStreak
    /\ autoCreates' = s.autoCreates
    /\ limClients' = s.limClients
    /\ limReqs' = s.limReqs

\* ---------------------------------------------------------------- the library
\* A handle is "init" (created, initialize() called), "ready" (it has emitted
\* 'ready'), "closed" (its page is gone: crashed, disconnected, failed) or "dead"
\* (destroy() was called on it).  Only "init" and "ready" handles emit events.
Live(cs) == cs \in {"init", "ready"}

\* client.destroy() is called on handle c: the browser is shut down.
Destroy(s, c) == [s EXCEPT !.cstate[c] = "dead"]

\* The destroy() promise of handle c settles, resolved (ok) or rejected: every
\* caller catches the rejection and goes on, so both leave the same state.
DestroyEnd(s, c, ok) == s

\* How a sendMessage on handle state cs can end.
SendResults(cs) ==
    IF cs = "ready" THEN {"ok", "benign", "fatal", "other"}
    ELSE IF cs = "init" THEN {"other"}
    ELSE {"fatal"}

IsBenignNever(res) == FALSE

\* err.message.includes('markedUnread')
IsBenign(res) == res = "benign"

IsSessionFatalOrTimeout(o) == o \in {"errFatal", "errTimeout"}

\* error.message.includes('Session closed') || error.message.includes('Protocol error')
IsSessionFatal(o) == o = "errFatal"

\* ---------------------------------------------------------------- session health
\* !client || !clientInitialized, negated
SessionReady(s) == s.client # 0 /\ s.clientInitialized

CheckSessionHealth(s) ==
    /\ SessionReady(s)
    /\ Live(s.cstate[s.client])                      \* pupPage && !pupPage.isClosed()

\* ---------------------------------------------------------------- delivery queue
RequeueAtTail(q, t) == q \o <<t>>

\* messageQueue.unshift(messageTask)
Requeue(q, t) == <<t>> \o q

\* await messageTask.execute(): client.sendMessage is called in the same segment
Dispatch(s, t) ==
    [s EXCEPT !.lpc[t] = "sending", !.sendOn[t] = s.client,
              !.dispOrder = Append(@, t)]

\* One pass of the while loop, from its condition to the next await or the exit.
LoopIter(s) ==
    IF s.messageQueue = <<>> THEN [s EXCEPT !.processingQueue = FALSE]
    ELSE LET t == Head(s.messageQueue)
             s1 == [s EXCEPT !.messageQueue = Tail(@)]
         IN  IF ~SessionReady(s1)
             THEN [s1 EXCEPT !.messageQueue = Requeue(@, t), !.processingQueue = FALSE,
                             !.requeued = @ \cup {<<t, s1.messageQueue[i]>> :
                                                    i \in 1..Len(s1.messageQueue)}]
             ELSE Dispatch(s1, t)

\* if (processingQueue || messageQueue.length === 0) return;
DrainGuard(s) == s.processingQueue \/ s.messageQueue = <<>>

ProcessMessageQueue(s) ==
    IF DrainGuard(s) THEN s
    ELSE LoopIter([s EXCEPT !.processingQueue = TRUE])

QueueMessageNoTimer(s, r) ==
    ProcessMessageQueue(
        [s EXCEPT !.outcome[r] = "pending",
                  !.messageQueue = Append(@, r), !.enqOrder = Append(@, r),
                  !.qpc[r] = "queued"])

\* queueMessage: the promise, the task pushed, processMessageQueue(), the timer
QueueMessage(s, r) ==
    ProcessMessageQueue(
        [s EXCEPT !.outcome[r] = "pending", !.timeoutArmed[r] = TRUE,
                  !.messageQueue = Append(@, r), !.enqOrder = Append(@, r),
                  !.qpc[r] = "queued"])

\* ---------------------------------------------------------------- recovery
\* The caller's code after `await recoverSession()`.
RecoverReturn(s, k) ==
    IF k[1] = "req" THEN
        LET r == k[2] IN
        IF s.qpc[r] = "preRecover"
        THEN IF s.clientInitialized THEN QueueMessage(s, r)
             ELSE [s EXCEPT !.qpc[r] = "polling"]
        ELSE [s EXCEPT !.qpc[r] = "fbWait"]
    ELSE IF k = ManualCaller THEN [s EXCEPT !.manualResp = "true"]
    ELSE s

RecoverFinishKeepingFlag(s, k) ==
    RecoverReturn([s EXCEPT !.rpc[k] = "idle"], k)

\* finally { sessionRestartInProgress = false; }
RecoverFinish(s, k) ==
    RecoverReturn([s EXCEPT !.sessionRestartInProgress = FALSE, !.rpc[k] = "idle"], k)

\* ---------------------------------------------------------------- initialisation
NewClient(s) == 1 + Cardinality({c \in Clients : s.cstate[c] # "none"})

\* The caller's code after initializeWhatsAppClient() has returned `ok`.
InitReturn(s, owner, ok) ==
    IF owner = TimerOwner THEN s
    ELSE IF owner = RestartOwner THEN [s EXCEPT !.xpc = "idle", !.xprev = -1]
    ELSE RecoverFinish(s, owner)

AttemptsExhaustedNever(s) == FALSE

\* if (initializationAttempts >= maxInitAttempts) return false;
AttemptsExhausted(s) == s.initializationAttempts >= maxInitAttempts

\* initializeWhatsAppClient() up to `await client.initialize()`.
InitializeWhatsAppClient(s, owner) ==
    IF s.clientInitialized THEN InitReturn(s, owner, TRUE)
    ELSE IF AttemptsExhausted(s) THEN InitReturn(s, owner, FALSE)
    ELSE LET c == NewClient(s) IN
         IF c > s.limClients THEN [s EXCEPT !.capped = TRUE]
         ELSE [s EXCEPT !.initializationAttempts = @ + 1,
                        !.client = c, !.cstate[c] = "init",
                        !.ipc[c] = "initializing", !.iowner[c] = owner,
                        !.autoCreates = IF owner # RestartOwner
                                           /\ s.failStreak >= maxInitAttempts
                                        THEN TRUE ELSE @]

\* The retry timer of the catch block, then `return false`.
InitFail(s, c) ==
    LET s1 == IF s.initializationAttempts < maxInitAttempts
              THEN [s EXCEPT !.initTimers = @ + 1] ELSE s
    IN  InitReturn([s1 EXCEPT !.ipc[c] = "done", !.iowner[c] = TimerOwner,
                              !.itarget[c] = 0],
                   s.iowner[c], FALSE)

RecoverGuardOpen(s) == FALSE

\* if (sessionRestartInProgress) return;
RecoverGuard(s) == s.sessionRestartInProgress

\* recoverSession() up to its first await, called by k.
RecoverSession(s, k) ==
    IF RecoverGuard(s) THEN RecoverReturn(s, k)
    ELSE LET s1 == [s EXCEPT !.sessionRestartInProgress = TRUE] IN
         IF s1.client # 0
         THEN [Destroy(s1, s1.client) EXCEPT !.rpc[k] = "destroying",
                                            !.rtarget[k] = s1.client]
         ELSE [s1 EXCEPT !.clientInitialized = FALSE, !.rpc[k] = "settle"]

\* ---------------------------------------------------------------- task promises
\* The /send-message handler's code after `await queueMessage(...)`.
HandlerReaction(s, r) ==
    IF s.qpc[r] # "queued" THEN s
    ELSE IF s.outcome[r] \in {"ok", "okPlaceholder"}
    THEN [s EXCEPT !.qpc[r] = "done", !.resp[r] = "200"]
    ELSE IF IsSessionFatal(s.outcome[r])
    THEN RecoverSession([s EXCEPT !.qpc[r] = "fbRecover", !.recoverCalls[r] = @ + 1],
                        ReqCaller(r))
    ELSE [s EXCEPT !.qpc[r] = "done", !.resp[r] = "500"]

PromiseSettleLast(cur, new) == new

\* A promise keeps its first settlement; later resolve/reject calls do nothing.
PromiseSettle(cur, new) == IF cur = "pending" THEN new ELSE cur

Settle(s, t, o) ==
    LET n == PromiseSettle(s.outcome[t], o) IN
    IF n = s.outcome[t] THEN s
    ELSE HandlerReaction([s EXCEPT !.outcome[t] = n], t)

\* What execute() and the loop's try/catch make of a sendMessage result.
TaskOutcome(res) ==
    IF res = "ok" THEN "ok"
    ELSE IF IsBenign(res) THEN "okPlaceholder"
    ELSE IF res = "fatal" THEN "errFatal"
    ELSE "errOther"


\* ---------------------------------------------------------------- initial state
InitWith(nc, nr) ==
    /\ limClients = nc
    /\ limReqs = nr
    /\ client = 0
    /\ clientInitialized = FALSE
    /\ initializationAttempts = 0
    /\ sessionHealthCheck = FALSE
    /\ lastHealthCheck = "null"
    /\ sessionRestartInProgress = FALSE
    /\ messageQueue = <<>>
    /\ processingQueue = FALSE
    /\ cstate = [c \in Clients |-> "none"]
    /\ ipc = [c \in Clients |-> "none"]
    /\ iowner = [c \in Clients |-> TimerOwner]
    /\ itarget = [c \in Clients |-> 0]
    /\ rpc = [k \in Callers |-> "idle"]
    /\ rtarget = [k \in Callers |-> 0]
    /\ xpc = "idle"
    /\ xtarget = 0
    /\ xprev = -1
    /\ initTimers = 1                 \* the startup timer of app.listen
    /\ reconnTimers = 0
    /\ stateTimers = 0
    /\ qpc = [r \in Reqs |-> "idle"]
    /\ resp = [r \in Reqs |-> "none"]
    /\ outcome = [r \in Reqs |-> "none"]
    /\ timeoutArmed = [r \in Reqs |-> FALSE]
    /\ lpc = [r \in Reqs |-> "none"]
    /\ sendOn = [r \in Reqs |-> 0]
    /\ dres = [r \in Reqs |-> "none"]
    /\ recoverCalls = [r \in Reqs |-> 0]
    /\ direct = {}
    /\ enqOrder = <<>>
    /\ dispOrder = <<>>
    /\ requeued = {}
    /\ failedOn = {}
    /\ cleared = {}
    /\ clearedCount = -1
    /\ shutdown = "no"
    /\ nullDeref = {}
    /\ manualResp = "none"
    /\ failStreak = 0
    /\ autoCreates = FALSE

\* ---------------------------------------------------------------- timers
\* setTimeout(() => initializeWhatsAppClient(), ...): startup and retry timers
InitTimerFire ==
    /\ initTimers > 0
    /\ Apply(InitializeWhatsAppClient([Cur EXCEPT !.initTimers = @ - 1], TimerOwner))

ReconnTimerFireUnguarded ==
    /\ reconnTimers > 0
    /\ LET s == [Cur EXCEPT !.reconnTimers = @ - 1] IN
       Apply(IF ~s.clientInitialized
             THEN InitializeWhatsAppClient(s, TimerOwner)
             ELSE s)

\* the 10 s timer of the 'disconnected' handler
ReconnTimerFire ==
    /\ reconnTimers > 0
    /\ LET s == [Cur EXCEPT !.reconnTimers = @ - 1] IN
       Apply(IF ~s.clientInitialized /\ ~s.sessionRestartInProgress
             THEN InitializeWhatsAppClient(s, TimerOwner)
             ELSE s)

\* the 5 s timer of the 'change_state' handler
StateTimerFire ==
    /\ stateTimers > 0
    /\ Apply(RecoverSession([Cur EXCEPT !.stateTimers = @ - 1], StateCaller))

\* the setInterval callback of startSessionHealthMonitoring
HealthTick ==
    /\ sessionHealthCheck
    /\ Apply(IF ~clientInitialized THEN Cur
             ELSE LET s == [Cur EXCEPT !.lastHealthCheck = "set"] IN
                  IF ~CheckSessionHealth(Cur) /\ ~sessionRestartInProgress
                  THEN RecoverSession(s, HealthCaller)
                  ELSE s)

\* ---------------------------------------------------------------- client.initialize()
Streak(n) == IF n >= maxInitAttempts THEN maxInitAttempts ELSE n + 1

InitResolve(c) ==
    /\ ipc[c] = "initializing"
    /\ cstate[c] = "init"
    /\ Apply(InitReturn([Cur EXCEPT !.ipc[c] = "done", !.iowner[c] = TimerOwner,
                                    !.failStreak = 0],
                         iowner[c], TRUE))

\* client.initialize() rejects: the catch block up to `await client.destroy()`
InitReject(c) ==
    /\ ipc[c] = "initializing"
    /\ LET s == [Cur EXCEPT !.failStreak = Streak(@),
                            !.cstate[c] = IF @ = "init" THEN "closed" ELSE @] IN
       Apply(IF s.client # 0
             THEN [Destroy(s, s.client) EXCEPT !.ipc[c] = "cleanup", !.itarget[c] = s.client]
             ELSE InitFail(s, c))

\* the catch block after `await client.destroy()`
InitCleanupDone(c, ok) ==
    /\ ipc[c] = "cleanup"
    /\ Apply(InitFail([DestroyEnd(Cur, itarget[c], ok) EXCEPT !.client = 0], c))

\* ---------------------------------------------------------------- lifecycle events
EvReadyNoDrain(c) ==
    /\ cstate[c] = "init"
    /\ ipc[c] = "done"
    /\ Apply([Cur EXCEPT !.cstate[c] = "ready", !.clientInitialized = TRUE,
                         !.initializationAttempts = 0, !.sessionHealthCheck = TRUE,
                         !.failStreak = 0])

\* The library emits 'ready' once initialize() has resolved.
EvReady(c) ==
    /\ cstate[c] = "init"
    /\ ipc[c] = "done"
    /\ Apply(ProcessMessageQueue(
           [Cur EXCEPT !.cstate[c] = "ready", !.clientInitialized = TRUE,
                       !.initializationAttempts = 0, !.sessionHealthCheck = TRUE,
                       !.failStreak = 0]))

EvAuthFailureRetrying(c) ==
    /\ cstate[c] = "init"
    /\ Apply([Cur EXCEPT !.cstate[c] = "closed", !.clientInitialized = FALSE,
                         !.reconnTimers = @ + 1])

EvAuthFailure(c) ==
    /\ cstate[c] = "init"
    /\ Apply([Cur EXCEPT !.cstate[c] = "closed", !.clientInitialized = FALSE])

EvDisconnected(c) ==
    /\ Live(cstate[c])
    /\ Apply([Cur EXCEPT !.cstate[c] = "closed", !.clientInitialized = FALSE,
                         !.sessionHealthCheck = FALSE, !.reconnTimers = @ + 1])

\* change_state with CONFLICT or UNLAUNCHED
EvChangeState(c) ==
    /\ Live(cstate[c])
    /\ stateTimers = 0
    /\ Apply([Cur EXCEPT !.stateTimers = @ + 1])

\* the browser page closes without any event
PageCrash(c) ==
    /\ Live(cstate[c])
    /\ Apply([Cur EXCEPT !.cstate[c] = "closed"])

\* ---------------------------------------------------------------- recoverSession
\* after `await client.destroy()`
RecoverDestroyedAborting(k, ok) ==
    /\ rpc[k] = "destroying"
    /\ Apply(IF ok
             THEN [DestroyEnd(Cur, rtarget[k], ok) EXCEPT
                      !.client = 0, !.clientInitialized = FALSE, !.rpc[k] = "settle",
                      !.rtarget[k] = 0]
             ELSE RecoverFinish([Cur EXCEPT !.rtarget[k] = 0], k))

RecoverDestroyed(k, ok) ==
    /\ rpc[k] = "destroying"
    /\ Apply([DestroyEnd(Cur, rtarget[k], ok) EXCEPT
                 !.client = 0, !.clientInitialized = FALSE, !.rpc[k] = "settle",
                 !.rtarget[k] = 0])

\* after the 3 s wait
RecoverSettled(k) ==
    /\ rpc[k] = "settle"
    /\ Apply(InitializeWhatsAppClient([Cur EXCEPT !.rpc[k] = "init"], k))

\* POST /recover-session
ManualRecover ==
    /\ rpc[ManualCaller] = "idle"
    /\ Apply(IF sessionRestartInProgress THEN [Cur EXCEPT !.manualResp = "false"]
             ELSE RecoverSession([Cur EXCEPT !.manualResp = "none"], ManualCaller))

\* ---------------------------------------------------------------- /restart-client
RestartResetKeepingAttempts(s) ==
    InitializeWhatsAppClient(
        [s EXCEPT !.client = 0, !.clientInitialized = FALSE,
                  !.xprev = s.initializationAttempts, !.xpc = "init", !.xtarget = 0],
        RestartOwner)

\* client = null; clientInitialized = false; initializationAttempts = 0;
\* await initializeWhatsAppClient()
RestartReset(s) ==
    InitializeWhatsAppClient(
        [s EXCEPT !.client = 0, !.clientInitialized = FALSE,
                  !.xprev = s.initializationAttempts,
                  !.initializationAttempts = 0, !.xpc = "init", !.xtarget = 0],
        RestartOwner)

RestartRequest ==
    /\ xpc = "idle"
    /\ LET s == [Cur EXCEPT !.sessionHealthCheck = FALSE, !.failStreak = 0] IN
       Apply(IF s.client # 0
             THEN [Destroy(s, s.client) EXCEPT !.xpc = "destroying", !.xtarget = s.client]
             ELSE RestartReset(s))

RestartDestroyed(ok) ==
    /\ xpc = "destroying"
    /\ Apply(RestartReset(DestroyEnd(Cur, xtarget, ok)))

\* ---------------------------------------------------------------- /send-message
SendMessageNoReadyCheck(r) ==
    /\ r <= limReqs
    /\ \A q \in 1..(r - 1) : qpc[q] # "idle"
    /\ qpc[r] = "idle"
    /\ Apply(IF ~CheckSessionHealth(Cur)
             THEN RecoverSession([Cur EXCEPT !.qpc[r] = "preRecover"], ReqCaller(r))
             ELSE QueueMessage(Cur, r))

\* POST /send-message up to its first await (the payload is valid)
SendMessage(r) ==
    /\ r <= limReqs
    /\ \A q \in 1..(r - 1) : qpc[q] # "idle"
    /\ qpc[r] = "idle"
    /\ Apply(IF ~SessionReady(Cur)
             THEN [Cur EXCEPT !.qpc[r] = "done", !.resp[r] = "503"]
             ELSE IF ~CheckSessionHealth(Cur)
             THEN RecoverSession([Cur EXCEPT !.qpc[r] = "preRecover"], ReqCaller(r))
             ELSE QueueMessage(Cur, r))

\* the wait loop sees clientInitialized
PollReady(r) ==
    /\ qpc[r] = "polling"
    /\ clientInitialized
    /\ Apply(QueueMessage(Cur, r))

PollTimeoutEnqueuing(r) ==
    /\ qpc[r] = "polling"
    /\ ~clientInitialized
    /\ Apply(QueueMessage(Cur, r))

\* 30 polls without clientInitialized: 'Failed to recover session within timeout'
PollTimeout(r) ==
    /\ qpc[r] = "polling"
    /\ ~clientInitialized
    /\ Apply([Cur EXCEPT !.qpc[r] = "done", !.resp[r] = "500"])

SendDoneEscaping(t, res) ==
    /\ lpc[t] = "sending"
    /\ res \in SendResults(cstate[sendOn[t]])
    /\ Apply([Settle([Cur EXCEPT !.dres[t] = res,
                                   !.failedOn = IF res = "fatal" THEN @ \cup {sendOn[t]}
                                                ELSE @],
                      t, TaskOutcome(res))
                 EXCEPT !.lpc[t] = IF res \in {"fatal", "other"} THEN "none" ELSE "pacing",
                        !.sendOn[t] = 0])

\* the sendMessage called by task t's execute() settles
SendDone(t, res) ==
    /\ lpc[t] = "sending"
    /\ res \in SendResults(cstate[sendOn[t]])
    /\ Apply([Settle([Cur EXCEPT !.dres[t] = res,
                                   !.failedOn = IF res = "fatal" THEN @ \cup {sendOn[t]}
                                                ELSE @],
                      t, TaskOutcome(res))
                 EXCEPT !.lpc[t] = "pacing", !.sendOn[t] = 0])

\* the 1 s pause ends: back to the loop condition
PaceDone(t) ==
    /\ lpc[t] = "pacing"
    /\ Apply(LoopIter([Cur EXCEPT !.lpc[t] = "none"]))

\* the 2-minute timer of queueMessage
TaskTimeout(t) ==
    /\ timeoutArmed[t]
    /\ Apply(Settle([Cur EXCEPT !.timeoutArmed[t] = FALSE], t, "errTimeout"))

\* the catch block after `await recoverSession()` and the 5 s wait
\* (with client null the call throws a TypeError, caught and answered 500)
FbWaitDone(r) ==
    /\ qpc[r] = "fbWait"
    /\ Apply(IF clientInitialized /\ client # 0
             THEN [Cur EXCEPT !.qpc[r] = "fbSending", !.sendOn[r] = client,
                              !.direct = @ \cup {r}]
             ELSE IF clientInitialized
             THEN [Cur EXCEPT !.qpc[r] = "done", !.resp[r] = "500",
                              !.nullDeref = @ \cup {r}]
             ELSE [Cur EXCEPT !.qpc[r] = "done", !.resp[r] = "500"])

FbSendDone(r, res) ==
    /\ qpc[r] = "fbSending"
    /\ res \in SendResults(cstate[sendOn[r]])
    /\ Apply([Cur EXCEPT !.qpc[r] = "done", !.sendOn[r] = 0,
                         !.resp[r] = IF res = "ok" THEN "200" ELSE "500"])

ClearQueueRejecting ==
    \E s \in {[Cur EXCEPT !.clearedCount = Len(messageQueue),
                           !.cleared = @ \cup {messageQueue[i] : i \in 1..Len(messageQueue)},
                           !.outcome = [t \in Reqs |->
                                          IF \E i \in 1..Len(messageQueue) : messageQueue[i] = t
                                          THEN PromiseSettle(@[t], "errOther") ELSE @[t]],
                           !.messageQueue = <<>>, !.processingQueue = FALSE]} :
        Apply(s)

\* POST /clear-queue
ClearQueue ==
    \E s \in {[Cur EXCEPT !.clearedCount = Len(messageQueue),
                           !.cleared = @ \cup {messageQueue[i] : i \in 1..Len(messageQueue)},
                           !.messageQueue = <<>>, !.processingQueue = FALSE]} :
        Apply(s)

\* ---------------------------------------------------------------- shutdown
\* process.on('SIGINT' / 'SIGTERM') up to await client.destroy() or process.exit(0)
Shutdown ==
    /\ shutdown = "no"
    /\ LET s == [Cur EXCEPT !.sessionHealthCheck = FALSE] IN
       Apply(IF s.client # 0 /\ s.clientInitialized
             THEN [Destroy(s, s.client) EXCEPT !.shutdown = "destroying"]
             ELSE [s EXCEPT !.shutdown = "exited"])

\* the handler's destroy settles (a rejection is caught): process.exit(0)
ShutdownDestroyed(ok) ==
    /\ shutdown = "destroying"
    /\ Apply([DestroyEnd(Cur, client, ok) EXCEPT !.shutdown = "exited"])

\* ---------------------------------------------------------------- specification
Lifecycle ==
    \/ InitTimerFire
    \/ ReconnTimerFire
    \/ HealthTick
    \/ \E c \in Clients : InitResolve(c)
    \/ \E c \in Clients : InitReject(c)
    \/ \E c \in Clients, ok \in BOOLEAN : InitCleanupDone(c, ok)
    \/ \E c \in Clients : EvReady(c)
    \/ \E c \in Clients : EvDisconnected(c)
    \/ \E c \in Clients : PageCrash(c)
    \/ \E k \in Callers, ok \in BOOLEAN : RecoverDestroyed(k, ok)
    \/ \E k \in Callers : RecoverSettled(k)

Operator ==
    \/ StateTimerFire
    \/ \E c \in Clients : EvAuthFailure(c)
    \/ \E c \in Clients : EvChangeState(c)
    \/ ManualRecover
    \/ RestartRequest
    \/ \E ok \in BOOLEAN : RestartDestroyed(ok)

Delivery ==
    \/ \E r \in Reqs : SendMessage(r)
    \/ \E r \in Reqs : PollReady(r)
    \/ \E r \in Reqs : PollTimeout(r)
    \/ \E t \in Reqs, res \in {"ok", "benign", "fatal", "other"} : SendDone(t, res)
    \/ \E t \in Reqs : PaceDone(t)
    \/ \E t \in Reqs : TaskTimeout(t)
    \/ \E r \in Reqs : FbWaitDone(r)
    \/ \E r \in Reqs, res \in {"ok", "benign", "fatal", "other"} : FbSendDone(r, res)
    \/ ClearQueue

Init == InitWith(QueueClients, QueueReqs)

Next == Lifecycle \/ Operator \/ Delivery

Spec == Init /\ [][Next]_vars

\* Delivery against a session that fails, is monitored and recovers.
NextQueue == Lifecycle \/ Delivery

SpecQueue == InitWith(QueueClients, QueueReqs) /\ [][NextQueue]_vars

\* The supervisor alone: no /send-message request arrives.
NextLife == Lifecycle \/ Operator

SpecLife == InitWith(LifeClients, 0) /\ [][NextLife]_vars

\* Initialisation retries, recovery and /restart-client, with handles that fail to
\* initialise; no disconnect or crash of a handle that initialised.
Retry ==
    \/ InitTimerFire
    \/ HealthTick
    \/ \E c \in Clients : InitResolve(c)
    \/ \E c \in Clients : InitReject(c)
    \/ \E c \in Clients, ok \in BOOLEAN : InitCleanupDone(c, ok)
    \/ \E c \in Clients : EvReady(c)
    \/ \E k \in Callers, ok \in BOOLEAN : RecoverDestroyed(k, ok)
    \/ \E k \in Callers : RecoverSettled(k)
    \/ ManualRecover

NextRetry == Retry

SpecRetry == InitWith(RetryClients, 0) /\ [][NextRetry]_vars

NextRestart ==
    \/ Retry
    \/ RestartRequest
    \/ \E ok \in BOOLEAN : RestartDestroyed(ok)

SpecRestart == InitWith(RestartClients, 0) /\ [][NextRestart]_vars

\* Three requests against a session that disconnects and is re-created.
NextFifo ==
    \/ InitTimerFire
    \/ ReconnTimerFire
    \/ \E c \in Clients : InitResolve(c)
    \/ \E c \in Clients : EvReady(c)
    \/ \E c \in Clients : EvDisconnected(c)
    \/ \E k \in Callers, ok \in BOOLEAN : RecoverDestroyed(k, ok)
    \/ \E k \in Callers : RecoverSettled(k)
    \/ \E r \in Reqs : SendMessage(r)
    \/ \E t \in Reqs, res \in {"ok", "benign", "fatal", "other"} : SendDone(t, res)
    \/ \E t \in Reqs : PaceDone(t)
    \/ ClearQueue

SpecFifo == InitWith(FifoClients, FifoReqs) /\ [][NextFifo]_vars

\* The same, with each task's 2-minute timer: a timer that is armed fires.
NextSettle == NextFifo \/ \E t \in Reqs : TaskTimeout(t)

SpecSettle ==
    /\ InitWith(SettleClients, SettleReqs)
    /\ [][NextSettle]_vars
    /\ WF_vars(\E t \in Reqs : TaskTimeout(t))

\* Three requests, the queue cleared at any time, task timers without fairness.
NextClear ==
    \/ InitTimerFire
    \/ \E c \in Clients : InitResolve(c)
    \/ \E c \in Clients : EvReady(c)
    \/ \E k \in Callers, ok \in BOOLEAN : RecoverDestroyed(k, ok)
    \/ \E k \in Callers : RecoverSettled(k)
    \/ \E r \in Reqs : SendMessage(r)
    \/ \E t \in Reqs, res \in {"ok", "benign", "fatal", "other"} : SendDone(t, res)
    \/ \E t \in Reqs : PaceDone(t)
    \/ \E t \in Reqs : TaskTimeout(t)
    \/ ClearQueue

SpecClear == InitWith(ClearClients, ClearReqs) /\ [][NextClear]_vars

\* Two requests against a session that disconnects, is recovered and reconnected,
\* with initialisations that may fail; no task timers, no health monitor.
NextResume ==
    \/ InitTimerFire
    \/ ReconnTimerFire
    \/ \E c \in Clients : InitResolve(c)
    \/ \E c \in Clients : InitReject(c)
    \/ \E c \in Clients, ok \in BOOLEAN : InitCleanupDone(c, ok)
    \/ \E c \in Clients : EvReady(c)
    \/ \E c \in Clients : EvDisconnected(c)
    \/ \E k \in Callers, ok \in BOOLEAN : RecoverDestroyed(k, ok)
    \/ \E k \in Callers : RecoverSettled(k)
    \/ \E r \in Reqs : SendMessage(r)
    \/ \E t \in Reqs, res \in {"ok", "benign", "fatal", "other"} : SendDone(t, res)
    \/ \E t \in Reqs : PaceDone(t)

SpecResume == InitWith(ResumeClients, ResumeReqs) /\ [][NextResume]_vars

\* A signal arrives at any time while the session is created, monitored, recovered
\* and used by requests.
NextExit ==
    \/ InitTimerFire
    \/ HealthTick
    \/ \E c \in Clients : InitResolve(c)
    \/ \E c \in Clients : EvReady(c)
    \/ \E c \in Clients : PageCrash(c)
    \/ \E k \in Callers, ok \in BOOLEAN : RecoverDestroyed(k, ok)
    \/ \E k \in Callers : RecoverSettled(k)
    \/ ManualRecover
    \/ \E r \in Reqs : SendMessage(r)
    \/ \E t \in Reqs, res \in {"ok", "benign", "fatal", "other"} : SendDone(t, res)
    \/ \E t \in Reqs : PaceDone(t)
    \/ Shutdown
    \/ \E ok \in BOOLEAN : ShutdownDestroyed(ok)

SpecExit == InitWith(ExitClients, ExitReqs) /\ [][NextExit]_vars

\* Requests against a session whose handles may fail authentication; a handle
\* stops working only through auth_failure or a recovery's destroy.
NextAuth ==
    \/ InitTimerFire
    \/ HealthTick
    \/ ManualRecover
    \/ \E c \in Clients : InitResolve(c)
    \/ \E c \in Clients : EvReady(c)
    \/ \E c \in Clients : EvAuthFailure(c)
    \/ \E k \in Callers, ok \in BOOLEAN : RecoverDestroyed(k, ok)
    \/ \E k \in Callers : RecoverSettled(k)
    \/ \E r \in Reqs : SendMessage(r)
    \/ \E t \in Reqs, res \in {"ok", "benign", "fatal", "other"} : SendDone(t, res)
    \/ \E t \in Reqs : PaceDone(t)

SpecAuth == InitWith(AuthClients, AuthReqs) /\ [][NextAuth]_vars

\* Disconnections and reconnect timers beside failing initialisations and manual
\* recoveries; no request arrives.
NextReconn ==
    \/ InitTimerFire
    \/ ReconnTimerFire
    \/ \E c \in Clients : InitResolve(c)
    \/ \E c \in Clients : InitReject(c)
    \/ \E c \in Clients, ok \in BOOLEAN : InitCleanupDone(c, ok)
    \/ \E c \in Clients : EvReady(c)
    \/ \E c \in Clients : EvDisconnected(c)
    \/ \E k \in Callers, ok \in BOOLEAN : RecoverDestroyed(k, ok)
    \/ \E k \in Callers : RecoverSettled(k)
    \/ ManualRecover

SpecReconn == InitWith(ReconnClients, 0) /\ [][NextReconn]_vars

\* Recoveries requested by the health monitor and by /recover-session, over handles
\* that crash and initialisations that fail.  Every library call returns: a pending
\* destroy(), 3 s wait or initialize() is eventually resumed.
NextRecover ==
    \/ Retry
    \/ \E c \in Clients : PageCrash(c)

LibraryReturns ==
    \/ \E k \in Callers, ok \in BOOLEAN : RecoverDestroyed(k, ok)
    \/ \E k \in Callers : RecoverSettled(k)
    \/ \E c \in Clients : InitResolve(c)
    \/ \E c \in Clients : InitReject(c)
    \/ \E c \in Clients, ok \in BOOLEAN : InitCleanupDone(c, ok)

SpecRecover ==
    /\ InitWith(RecoverClients, 0)
    /\ [][NextRecover]_vars
    /\ WF_vars(LibraryReturns)

\* The same, with timers that fire: a pending start-up or retry timer runs, and the
\* health monitor's interval keeps firing while it is set.
SpecMonitor ==
    /\ InitWith(MonitorClients, 0)
    /\ [][NextRecover]_vars
    /\ WF_vars(LibraryReturns)
    /\ WF_vars(InitTimerFire)
    /\ WF_vars(HealthTick)

\* Every path that calls destroy(): recoveries, failed initialisations,
\* /restart-client and the signal handlers; each destroy may resolve or reject.
NextTeardown ==
    \/ Retry
    \/ \E c \in Clients : PageCrash(c)
    \/ RestartRequest
    \/ \E ok \in BOOLEAN : RestartDestroyed(ok)
    \/ Shutdown
    \/ \E ok \in BOOLEAN : ShutdownDestroyed(ok)

SpecTeardown == InitWith(TeardownClients, 0) /\ [][NextTeardown]_vars

\* ================================================================ claims

\* C1: every sendMessage call is made by the drain loop; no request handler calls
\* client.sendMessage itself.
C1_NoDirectSend == direct = {}

\* C2: at most one drain loop is active (awaiting a send or its pacing delay) at
\* any time, hence at most one queued task is being dispatched.
C2_SingleDrainLoop == Cardinality({t \in Reqs : lpc[t] # "none"}) <= 1

Settled(o) == o \notin {"none", "pending"}

\* What the promise of task t must hold, given how its dispatch ended and whether
\* its timer has fired.
OutcomeExplained(t) ==
    /\ outcome[t] = "pending" => dres[t] = "none" /\ timeoutArmed[t]
    /\ outcome[t] = "ok" => dres[t] = "ok"
    /\ outcome[t] = "okPlaceholder" => dres[t] = "benign"
    /\ outcome[t] = "errFatal" => dres[t] = "fatal"
    /\ outcome[t] = "errOther" => dres[t] = "other"
    /\ outcome[t] = "errTimeout" => ~timeoutArmed[t]
    /\ outcome[t] # "none" /\ (dres[t] # "none" \/ ~timeoutArmed[t]) => Settled(outcome[t])

\* C3: a task's continuation is settled exactly once: as soon as its dispatch has
\* ended or its timer has fired it is settled, with the outcome of whichever came
\* first; neither the settlement nor the answer given to the caller changes
\* afterwards; and every task created is settled in the end.
C3_SettledExactlyOnce ==
    /\ [](\A t \in Reqs : OutcomeExplained(t))
    /\ [][\A t \in Reqs :
            /\ Settled(outcome[t]) => outcome'[t] = outcome[t]
            /\ resp[t] # "none" => resp'[t] = resp[t]]_vars
    /\ <>[](\A t \in Reqs : outcome[t] # "pending")

\* C3 witness: the timer fired while the dispatch was in flight, and the send
\* then succeeded.
C3_Witness == \E t \in Reqs : dres[t] = "ok" /\ outcome[t] = "errTimeout"

Pos(q, t) == CHOOSE i \in 1..Len(q) : q[i] = t

\* C4: tasks are dispatched in the order they were enqueued.
C4_Fifo ==
    \A i, j \in 1..Len(dispOrder) :
        i < j => Pos(enqOrder, dispOrder[i]) < Pos(enqOrder, dispOrder[j])

\* C4 witness: a task was put back at the head of the queue while another waited
\* behind it, and both have since been dispatched.
C4_Witness ==
    \E p \in requeued :
        \E i, j \in 1..Len(dispOrder) : dispOrder[i] = p[1] /\ dispOrder[j] = p[2]

\* C5: the drain loop calls sendMessage only when a handle is present, the ready
\* flag is set and no recovery is in flight.
C5_DispatchOnlyWhenReady ==
    [][\A t \in Reqs :
          lpc[t] # "sending" /\ lpc'[t] = "sending"
          => client' # 0 /\ clientInitialized' /\ ~sessionRestartInProgress']_vars

InFlight == {k \in Callers : rpc[k] # "idle"}

\* C6: at most one recoverSession body is in flight; a recoverSession call made
\* while one is (the change_state timer's) and a /recover-session request refused
\* for that reason leave the session as it is.
C6_SingleRecovery ==
    /\ [](Cardinality(InFlight) <= 1 /\ (sessionRestartInProgress <=> InFlight # {}))
    /\ [][sessionRestartInProgress
          /\ (stateTimers' < stateTimers \/ (manualResp # "false" /\ manualResp' = "false"))
          => UNCHANGED <<client, clientInitialized, initializationAttempts, cstate,
                         ipc, rpc, sessionRestartInProgress, initTimers>>]_vars

\* C6 witness: /recover-session was refused while a recovery was in flight.
C6_Witness == manualResp = "false" /\ sessionRestartInProgress

\* C7: once maxInitAttempts consecutive initialisations have failed, no path
\* other than /restart-client creates another handle.
C7_TerminalAfterMaxAttempts == ~autoCreates

\* C8: every /restart-client, once the old handle's destroy has settled, leaves
\* initializationAttempts at 1 (reset to 0, then the new attempt), the ready flag
\* clear, and `client` a handle created in that step with initialize() pending.
C8_RestartAlwaysCreates ==
    [][(xpc = "destroying" /\ xpc' # "destroying") \/ (xpc = "idle" /\ xpc' = "init")
       => /\ xpc' = "init"
          /\ client' # 0 /\ cstate[client'] = "none" /\ cstate'[client'] = "init"
          /\ ipc'[client'] = "initializing"
          /\ initializationAttempts' = 1
          /\ ~clientInitialized']_vars

\* C8 witness: a restart that found the attempts exhausted has dispatched its
\* creation attempt.
C8_Witness == xpc = "init" /\ xprev = maxInitAttempts /\ client # 0

\* C9: a dispatch that ends with the markedUnread error never fails the task: the
\* task is settled with the placeholder result and the caller answered 200,
\* unless the task's timer had already fired; the loop goes on to its pacing delay.
C9_BenignIsSuccess ==
    \A t \in Reqs :
        dres[t] = "benign"
        => /\ outcome[t] \in {"okPlaceholder", "errTimeout"}
           /\ outcome[t] = "okPlaceholder" => resp[t] = "200"
           /\ outcome[t] = "errTimeout" => ~timeoutArmed[t]
           /\ lpc[t] # "sending"

\* C9 witness: a dispatch ended with the markedUnread error and the caller was
\* answered 200.
C9_Witness == \E t \in Reqs : dres[t] = "benign" /\ resp[t] = "200"

\* C10: a dispatch that fails with a session-fatal error causes exactly one
\* recoverSession call, fails the task in flight and leaves the queued tasks alone.
C10_FatalTriggersOneRecovery ==
    /\ [](\A t \in Reqs : dres[t] = "fatal" => recoverCalls[t] = 1)
    /\ [][\A t \in Reqs :
            dres[t] = "none" /\ dres'[t] = "fatal"
            => /\ outcome'[t] \in {"errFatal", "errTimeout"}
               /\ messageQueue' = messageQueue
               /\ \A u \in Reqs \ {t} : outcome'[u] = outcome[u]]_vars

\* C11: after a queue dispatch has failed with a session-fatal error, the drain
\* loop does not dispatch another task to the handle the failure occurred on: the
\* next task waits until a handle created since has become ready.
C11_NoDispatchBeforeReadyAgain ==
    [][\A u \in Reqs :
          lpc[u] # "sending" /\ lpc'[u] = "sending" => client' \notin failedOn]_vars

InQueue(t) == \E i \in 1..Len(messageQueue) : messageQueue[i] = t

\* C12: /clear-queue reports the number of tasks that were queued and leaves the
\* queue empty; it settles no promise, answers no caller and disarms no timer; a
\* cleared task is never dispatched afterwards, so its promise can only be settled
\* by its own 2-minute timer.
C12_ClearQueueFrame ==
    /\ [](\A t \in cleared :
            /\ ~InQueue(t) /\ dres[t] = "none" /\ lpc[t] = "none"
            /\ outcome[t] \in {"pending", "errTimeout"}
            /\ outcome[t] = "pending" <=> timeoutArmed[t])
    /\ [][cleared' # cleared \/ clearedCount' # clearedCount
          => /\ clearedCount' = Len(messageQueue)
             /\ cleared' = cleared \cup {t \in Reqs : InQueue(t)}
             /\ messageQueue' = <<>>
             /\ UNCHANGED <<outcome, resp, qpc, timeoutArmed, dispOrder, lpc, dres>>]_vars
    /\ [][\A u \in Reqs : lpc[u] # "sending" /\ lpc'[u] = "sending" => u \notin cleared]_vars

\* C12 witness: a queue of two tasks was cleared and one of the two has since
\* been rejected by its timer.
C12_Witness ==
    /\ clearedCount = 2
    /\ Cardinality(cleared) >= 2
    /\ \E t \in cleared : outcome[t] = "errTimeout"

\* C13: a failed health check starts a recovery only when none is in flight, and
\* then exactly one; a check that fails while a recovery is in flight (the flag is
\* set) starts none and leaves the session as it is, so recoveries never overlap.
C13_HealthCheckSingleRecovery ==
    /\ [](Cardinality(InFlight) <= 1)
    /\ [][rpc[HealthCaller] = "idle" /\ rpc'[HealthCaller] # "idle"
          => /\ ~sessionRestartInProgress /\ InFlight = {}
             /\ clientInitialized /\ ~CheckSessionHealth(Cur)
             /\ sessionRestartInProgress' /\ InFlight' = {HealthCaller}]_vars
    /\ [][sessionRestartInProgress /\ lastHealthCheck' # lastHealthCheck
          => UNCHANGED <<client, clientInitialized, initializationAttempts, cstate,
                         ipc, rpc, sessionRestartInProgress, initTimers>>]_vars

\* C13 witness: the recovery a failed health check started is still awaiting the
\* old handle's destroy, the monitor is running and the check fails again.
C13_Witness ==
    /\ rpc[HealthCaller] = "destroying"
    /\ sessionHealthCheck /\ clientInitialized /\ ~CheckSessionHealth(Cur)

\* C14: the drain loop never passes to sendMessage a task whose promise its
\* 2-minute timer has already rejected.
C14_NoDispatchAfterTimeout ==
    [][\A u \in Reqs :
          lpc[u] # "sending" /\ lpc'[u] = "sending" => outcome'[u] # "errTimeout"]_vars

LoopActive == \E t \in Reqs : lpc[t] # "none"

\* C15: when a drain loop finds the session not ready it leaves the queue as it
\* is, head included, and stops; a ready event that fires with tasks queued leaves
\* a drain loop active, which has dispatched the head task unless one was running.
C15_StallAndResume ==
    /\ [][\A t \in Reqs :
            /\ lpc[t] = "pacing" /\ lpc'[t] = "none"
            /\ \A u \in Reqs : lpc'[u] = "sending" => lpc[u] = "sending"
            => /\ messageQueue' = messageQueue
               /\ ~processingQueue'
               /\ messageQueue # <<>> => ~SessionReady(Cur)]_vars
    /\ [][\A c \in Clients :
            cstate[c] # "ready" /\ cstate'[c] = "ready" /\ messageQueue # <<>>
            => /\ LoopActive'
               /\ ~LoopActive => /\ lpc'[Head(messageQueue)] = "sending"
                                 /\ messageQueue' = Tail(messageQueue)]_vars

\* C16: at no time do two handles coexist that are initialising or ready.
C16_SingleLiveHandle == Cardinality({c \in Clients : Live(cstate[c])}) <= 1

\* C17: a task whose queue dispatch failed with a session-fatal error is not sent
\* again: the gateway issues no further sendMessage for that request.
C17_NoResendAfterFatal == \A t \in Reqs : dres[t] = "fatal" => t \notin direct

\* C18: a message whose send through the queue failed is sent again by the
\* gateway: no request is answered after such a failure without a second send.
C18_FailedSendRetried ==
    \A r \in Reqs :
        resp[r] # "none" /\ outcome[r] \in {"errFatal", "errOther"} => r \in direct

\* C19: a request received while `client` is null or the ready flag is clear is
\* answered 503 in the same step, and that step changes nothing else: no task is
\* queued, no send made, no recovery started; such a request never gets a task.
C19_NotReadyIs503 ==
    /\ [][\A r \in Reqs :
            qpc[r] = "idle" /\ qpc'[r] # "idle" /\ ~SessionReady(Cur)
            => /\ qpc'[r] = "done" /\ resp'[r] = "503"
               /\ \A q \in Reqs \ {r} : qpc'[q] = qpc[q] /\ resp'[q] = resp[q]
               /\ UNCHANGED <<client, clientInitialized, initializationAttempts,
                              sessionHealthCheck, lastHealthCheck,
                              sessionRestartInProgress, messageQueue, processingQueue,
                              cstate, ipc, rpc, xpc, initTimers, reconnTimers,
                              stateTimers, outcome, timeoutArmed, lpc, sendOn, dres,
                              recoverCalls, direct, enqOrder, dispOrder>>]_vars
    /\ [](\A r \in Reqs :
            resp[r] = "503"
            => /\ outcome[r] = "none" /\ dres[r] = "none" /\ recoverCalls[r] = 0
               /\ r \notin direct /\ ~InQueue(r) /\ ~timeoutArmed[r])

\* C19 witness: a request was answered 503 while a handle exists that has not yet
\* emitted ready.
C19_Witness ==
    /\ \E r \in Reqs : resp[r] = "503" /\ qpc[r] = "done"
    /\ client # 0 /\ ~clientInitialized /\ cstate[client] = "init"

\* C20: every task queueMessage has created is eventually settled with a result
\* or a failure reason: while its promise is pending its 2-minute timer is armed,
\* and no promise stays pending for ever, also when the queue was cleared, the
\* session never becomes ready again or the send never returns.
C20_EventuallySettled ==
    /\ [](\A t \in Reqs : outcome[t] = "pending" => timeoutArmed[t])
    /\ [](\A t \in Reqs :
            outcome[t] \in {"none", "pending", "ok", "okPlaceholder",
                            "errFatal", "errOther", "errTimeout"})
    /\ \A t \in Reqs : []<>(outcome[t] # "pending")

\* C20 witness: a task's send is still in flight and its timer has rejected it.
C20_Witness == \E t \in Reqs : lpc[t] = "sending" /\ outcome[t] = "errTimeout"

\* C21: the signal handler stops the health timer and, whenever `client` holds a
\* handle, ready or not, requests its destroy before the process exits.
C21_ShutdownTearsDown ==
    [][shutdown = "no" /\ shutdown' # "no"
       => /\ ~sessionHealthCheck'
          /\ client # 0 => cstate'[client] = "dead" /\ shutdown' = "destroying"]_vars

\* C22: once the signal handler has been entered no recovery starts and no task is
\* queued or dispatched.
C22_NothingNewAfterShutdown ==
    [][shutdown # "no"
       => /\ \A k \in Callers : rpc[k] = "idle" => rpc'[k] = "idle"
          /\ enqOrder' = enqOrder
          /\ dispOrder' = dispOrder
          /\ direct' = direct]_vars

\* C23: an auth_failure event clears the ready flag and does nothing else: no
\* handle is created or dropped, no initialisation or recovery starts, no timer is
\* armed, and initializationAttempts and the queue keep their values.
C23_AuthFailureFrame ==
    [][\A c \in Clients : EvAuthFailure(c)
         => /\ ~clientInitialized'
            /\ client' = client
            /\ ipc' = ipc
            /\ rpc' = rpc
            /\ recoverCalls' = recoverCalls
            /\ sessionRestartInProgress' = sessionRestartInProgress
            /\ initTimers' = initTimers
            /\ reconnTimers' = reconnTimers
            /\ stateTimers' = stateTimers
            /\ initializationAttempts' = initializationAttempts
            /\ messageQueue' = messageQueue
            /\ processingQueue' = processingQueue]_vars

\* an authentication failure has happened while a task was queued
C23_Witness ==
    /\ \E c \in Clients : cstate[c] = "closed"
    /\ ~clientInitialized
    /\ messageQueue # <<>>
    /\ initializationAttempts > 0

\* a step that initialises nothing
NothingInitialized ==
    /\ client' = client
    /\ cstate' = cstate
    /\ ipc' = ipc
    /\ initializationAttempts' = initializationAttempts

\* a step that creates a handle, installs it and starts its initialisation
HandleCreated ==
    /\ client' # 0
    /\ cstate[client'] = "none"
    /\ cstate'[client'] = "init"
    /\ ipc'[client'] = "initializing"

\* a disconnected event clears the ready flag at once, arms exactly one reconnect
\* timer and initialises nothing itself
DisconnectedArmsOneTimer ==
    \A c \in Clients : EvDisconnected(c)
        => /\ ~clientInitialized'
           /\ reconnTimers' = reconnTimers + 1
           /\ client' = client
           /\ ipc' = ipc
           /\ initializationAttempts' = initializationAttempts

\* C24 as stated: when the reconnect timer fires a handle is initialised unless a
\* recovery is in flight or the session is ready, and then nothing is initialised.
C24_ReconnectUnlessRecovering ==
    [][/\ DisconnectedArmsOneTimer
       /\ ReconnTimerFire
            => IF clientInitialized \/ sessionRestartInProgress
               THEN NothingInitialized
               ELSE HandleCreated]_vars

\* C24 amended: the reconnect timer also initialises nothing when
\* initializationAttempts has reached maxInitAttempts.
C24_ReconnectUnlessRecoveringOrExhausted ==
    [][/\ DisconnectedArmsOneTimer
       /\ ReconnTimerFire
            => IF \/ clientInitialized
                  \/ sessionRestartInProgress
                  \/ initializationAttempts >= maxInitAttempts
               THEN NothingInitialized
               ELSE HandleCreated]_vars

\* a ready handle disconnected and the reconnect timer created its successor
C24_Witness ==
    /\ \E c \in Clients : cstate[c] = "closed"
    /\ reconnTimers = 0
    /\ initTimers = 0
    /\ client # 0
    /\ cstate[client] = "init"
    /\ iowner[client] = TimerOwner
    /\ initializationAttempts = 1
    /\ \A k \in Callers : rpc[k] = "idle"

\* every handle the run may create has been created
HandlesExhausted == NewClient(Cur) > limClients

\* C25: a recovery that has started always comes back to
\* sessionRestartInProgress = false, whatever its destroy and its initialisation
\* do, as long as the library calls return.
C25_RecoveryReturnsToIdle ==
    /\ []<>(~sessionRestartInProgress \/ HandlesExhausted)
    /\ [](sessionRestartInProgress <=> \E k \in Callers : rpc[k] # "idle")

\* a recovery whose initialisation failed has finished, and the next one was let in
C25_Witness ==
    /\ ~sessionRestartInProgress
    /\ manualResp = "true"
    /\ failStreak > 0
    /\ ~HandlesExhausted
    /\ client = 0

\* C26: a recovery returns to idle only after it has dropped the old handle and
\* started the initialisation of a new one, whatever initializationAttempts was:
\* the call that finishes is one that was waiting for the handle it created.
C26_RecoveryCreatesHandle ==
    [][\A k \in Callers :
          rpc[k] # "idle" /\ rpc'[k] = "idle"
          => /\ rpc[k] = "init"
             /\ \E c \in Clients : iowner[c] = k /\ ipc[c] \in {"initializing", "cleanup"}]_vars

\* C27: between a recovery's `client = null` and its own call of
\* initializeWhatsAppClient() the reference stays null: no timer and no
\* /restart-client installs a handle while the recovery waits.
C27_RecoveryOwnsHandle ==
    \A k \in Callers : rpc[k] = "settle" => client = 0

\* C28: a running health monitor records lastHealthCheck at its ticks whatever
\* the session state, so while the interval is set a check time gets recorded.
C28_TickRecords ==
    [](sessionHealthCheck => <>(lastHealthCheck = "set" \/ ~sessionHealthCheck))

\* C29: the firing of a task's 2-minute timer leaves the handle reference, the
\* ready flag, initializationAttempts, the recovery flag and every other task's
\* settlement and answer as they were, and starts no recovery.
C29_TimeoutLeavesSession ==
    [][\A t \in Reqs : TaskTimeout(t)
         => /\ client' = client
            /\ cstate' = cstate
            /\ clientInitialized' = clientInitialized
            /\ initializationAttempts' = initializationAttempts
            /\ sessionRestartInProgress' = sessionRestartInProgress
            /\ rpc' = rpc
            /\ recoverCalls' = recoverCalls
            /\ \A u \in Reqs \ {t} : outcome'[u] = outcome[u] /\ resp'[u] = resp[u]]_vars

\* a timeout has failed one request with 500 while the session is ready, no
\* recovery is running and another task is still pending
C29_Witness ==
    \E t, u \in Reqs :
        /\ outcome[t] = "errTimeout"
        /\ resp[t] = "500"
        /\ outcome[u] = "pending"
        /\ clientInitialized
        /\ ~sessionRestartInProgress
        /\ recoverCalls[t] = 0

C31_FailureStaysInLoop ==
    /\ [][\A t \in Reqs, res \in {"fatal", "other"} : SendDone(t, res)
            => /\ lpc'[t] = "pacing"
               /\ outcome[t] = "pending" => outcome'[t] = TaskOutcome(res)
               /\ \A u \in Reqs \ {t} : outcome'[u] = outcome[u]
               /\ messageQueue' = messageQueue]_vars
    /\ [][\A t \in Reqs : PaceDone(t)
            => IF messageQueue # <<>> /\ SessionReady(Cur)
               THEN /\ lpc'[Head(messageQueue)] = "sending"
                    /\ messageQueue' = Tail(messageQueue)
               ELSE /\ ~processingQueue'
                    /\ messageQueue' = messageQueue]_vars
    /\ [](processingQueue => LoopActive)

\* task 1 failed with an ordinary error, the loop went on to task 2
C31_Witness ==
    /\ outcome[1] = "errOther"
    /\ dres[1] = "other"
    /\ dispOrder = <<1, 2>>
    /\ lpc[2] = "sending"
    /\ messageQueue = <<3>>
    /\ processingQueue

\* C32: a destroy() that rejects does not stop its caller: recoverSession still
\* drops the handle, clears the ready flag and goes to its wait; the catch block of
\* initializeWhatsAppClient still drops the handle, arms the retry timer while
\* attempts remain and returns; /restart-client still resets the state and creates
\* a handle; the signal handler still exits.
C32_DestroyFailureSwallowed ==
    [][/\ \A k \in Callers : RecoverDestroyed(k, FALSE)
            => client' = 0 /\ ~clientInitialized' /\ rpc'[k] = "settle"
       /\ \A c \in Clients : InitCleanupDone(c, FALSE)
            => /\ client' = 0
               /\ ipc'[c] = "done"
               /\ initTimers' = initTimers
                      + (IF initializationAttempts < maxInitAttempts THEN 1 ELSE 0)
       /\ RestartDestroyed(FALSE)
            => /\ ~clientInitialized'
               /\ initializationAttempts' = 1
               /\ client' # 0 /\ cstate[client'] = "none" /\ cstate'[client'] = "init"
       /\ ShutdownDestroyed(FALSE) => shutdown' = "exited"]_vars

\* a recovery is at its wait after its destroy settled (rejected or resolved): the
\* handle is dead and dropped
C32_Witness ==
    /\ rpc[ManualCaller] = "settle"
    /\ client = 0
    /\ ~clientInitialized
    /\ cstate[1] = "dead"
    /\ ipc[1] = "done"
    /\ cstate[2] = "none"
    /\ xpc = "idle"
    /\ shutdown = "no"

\* C33: when a task is dispatched, every task dispatched before it has finished
\* its send and the 1 s pause after it has elapsed: no send is still pending, and
\* a pause is only one that ends with this very step.
C33_PauseBetweenDispatches ==
    [][Len(dispOrder') > Len(dispOrder)
         => \A t \in Reqs : lpc[t] # "none" => lpc[t] = "pacing" /\ lpc'[t] = "none"]_vars

\* C34: initializationAttempts stays within 0..maxInitAttempts whatever the
\* interleaving of timers, ready events, recoveries and restarts.
C34_AttemptsBounded ==
    initializationAttempts \in 0..maxInitAttempts

\* the counter has reached its maximum after failed initialisations, nothing is
\* pending and handles could still be created
C34_Witness ==
    /\ initializationAttempts = maxInitAttempts
    /\ failStreak >= maxInitAttempts
    /\ client = 0
    /\ initTimers = 0
    /\ ~sessionRestartInProgress
    /\ ~HandlesExhausted

\* C35: no send and no probe is made through a null handle: every send in flight
\* went to a handle, and no caller evaluated client.sendMessage with client null.
C35_NoUseOfAbsentHandle ==
    /\ nullDeref = {}
    /\ \A t \in Reqs : lpc[t] = "sending" \/ qpc[t] = "fbSending" => sendOn[t] # 0

Enqueued(r) == \E i \in 1..Len(enqOrder) : enqOrder[i] = r

\* C36: a request that finds the session unhealthy has a recovery running when
\* its handler first suspends or goes on; it has no task while it waits; it is
\* queued only at a moment when clientInitialized is true, and when the wait runs
\* out with the flag false it is answered 500 and never gets a task.
C36_EnqueueOnlyIfRecovered ==
    /\ [][\A r \in Reqs :
            /\ qpc[r] = "idle" /\ qpc'[r] # "idle"
               /\ SessionReady(Cur) /\ ~CheckSessionHealth(Cur)
               => sessionRestartInProgress'
            /\ qpc[r] \in {"preRecover", "polling"} /\ qpc'[r] = "queued"
               => clientInitialized /\ Enqueued(r)'
            /\ qpc[r] = "polling" /\ qpc'[r] = "done"
               => /\ ~clientInitialized
                  /\ resp'[r] = "500"
                  /\ enqOrder' = enqOrder /\ messageQueue' = messageQueue]_vars
    /\ [](\A r \in Reqs :
            \/ qpc[r] \in {"preRecover", "polling"}
            \/ resp[r] = "500" /\ outcome[r] = "none"
            => ~Enqueued(r) /\ outcome[r] = "none" /\ ~timeoutArmed[r])

\* a request waited for the recovery in vain and was answered 500 without a task,
\* while an earlier request, which also found the session unhealthy, was queued
C36_Witness ==
    \E r, q \in Reqs :
        /\ resp[r] = "500" /\ outcome[r] = "none" /\ ~Enqueued(r)
        /\ Enqueued(q)
        /\ recoverCalls[q] = 0 /\ failedOn = {}

\* C37: the ready flag is true only while `client` holds a handle.
C37_ReadyImpliesHandle == clientInitialized => client # 0

\* C38: ready, disconnected and auth_failure events of a handle that is not the
\* one `client` refers to leave the session state as it is.
C38_StaleEventsIgnored ==
    [][\A c \in Clients :
          /\ c # client
          /\ EvReady(c) \/ EvDisconnected(c) \/ EvAuthFailure(c)
          => /\ clientInitialized' = clientInitialized
             /\ initializationAttempts' = initializationAttempts
             /\ sessionHealthCheck' = sessionHealthCheck
             /\ reconnTimers' = reconnTimers]_vars

\* C39: the catch block of a failed initialisation destroys and drops only the
\* handle that this call created.
C39_CleanupOwnHandleOnly ==
    [][\A c \in Clients :
          /\ InitReject(c) => \A d \in Clients \ {c} : cstate'[d] = cstate[d]
          /\ \A ok \in BOOLEAN :
                InitCleanupDone(c, ok) => client = c \/ client' = client]_vars

====
